---- MODULE Spec2Model ----
(***************************************************************************)
(* The GCS cache backend of sccache (src/cache/gcs.rs): the credential     *)
(* provider with its single cached Shared future, the bucket's GET and     *)
(* PUT, and the Storage adapter that turns their outcomes into Hit, Miss   *)
(* or an error.                                                            *)
(***************************************************************************)
EXTENDS Integers, Sequences, FiniteSets, TLC

(***************************************************************************)
(* Bounds of the model.                                                    *)
(***************************************************************************)
MaxCalls == 2
MaxExch == 2
MaxTime == 60
MaxKeyLen == 3
MaxStartMillis == 1500

(***************************************************************************)
(* Program constants.                                                      *)
(***************************************************************************)
\* chrono::Duration::minutes(59); the clock of the model counts minutes
TokenLifetime == 59

\* DateTime::timestamp() counts whole seconds; the instants of the JWT part
\* of the model count milliseconds
MillisPerSecond == 1000

(***************************************************************************)
(* Bytes.  Keys and URLs are sequences of byte values.                     *)
(***************************************************************************)
\* '%', '&', '/', '?' and '=' of percent_encode and of the URL formats
PERCENT == 37
AMP == 38
SLASH == 47
QMARK == 63
EQUALS == 61

\* url::percent_encoding::SIMPLE_ENCODE_SET: C0 controls and everything
\* above '~'
SIMPLE_ENCODE_SET(b) == b < 32 \/ b > 126

\* QUERY_ENCODE_SET = SIMPLE | { ' ', '"', '#', '<', '>' }
QUERY_ENCODE_SET(b) == SIMPLE_ENCODE_SET(b) \/ b \in {32, 34, 35, 60, 62}

\* DEFAULT_ENCODE_SET = QUERY | { '`', '?', '{', '}' }
DEFAULT_ENCODE_SET(b) == QUERY_ENCODE_SET(b) \/ b \in {96, 63, 123, 125}

\* PATH_SEGMENT_ENCODE_SET = DEFAULT | { '%', '/' }
PATH_SEGMENT_ENCODE_SET(b) == DEFAULT_ENCODE_SET(b) \/ b \in {37, 47}

\* the upper-case hexadecimal digit of a nibble, as a byte
HexDigit(n) == IF n < 10 THEN 48 + n ELSE 55 + n

\* "%XX" for one byte
PercentByte(b) == <<PERCENT, HexDigit(b \div 16), HexDigit(b % 16)>>

\* percent_encode(input, PATH_SEGMENT_ENCODE_SET)
RECURSIVE EncodePathSegment(_)
EncodePathSegment(s) ==
    IF s = <<>> THEN <<>>
    ELSE (IF PATH_SEGMENT_ENCODE_SET(Head(s)) THEN PercentByte(Head(s))
          ELSE <<Head(s)>>) \o EncodePathSegment(Tail(s))

\* percent_encode(input, QUERY_ENCODE_SET)
RECURSIVE EncodeQuery(_)
EncodeQuery(s) ==
    IF s = <<>> THEN <<>>
    ELSE (IF QUERY_ENCODE_SET(Head(s)) THEN PercentByte(Head(s))
          ELSE <<Head(s)>>) \o EncodeQuery(Tail(s))

\* The part of the download URL after ".../o/": "<key>?alt=media"
GetUrl(key) == EncodePathSegment(key) \o <<QMARK, 97, 108, 116, 61, 109, 101, 100, 105, 97>>

\* The part of the upload URL after ".../o?": "name=<key>&uploadType=media"
PutUrl(key) ==
    <<110, 97, 109, 101, EQUALS>> \o EncodeQuery(key)
        \o <<AMP, 117, 112, 108, 111, 97, 100, 84, 121, 112, 101, EQUALS,
             109, 101, 100, 105, 97>>

(***************************************************************************)
(* How the remote end reads a URL (RFC 3986): the path ends at the first   *)
(* '?' or '#' (35), the query is a list of name=value pairs separated by   *)
(* '&', and "%XX" stands for the byte XX.                                  *)
(***************************************************************************)
IsHex(b) == (b >= 48 /\ b <= 57) \/ (b >= 65 /\ b <= 70) \/ (b >= 97 /\ b <= 102)

HexValue(b) == IF b <= 57 THEN b - 48 ELSE IF b <= 70 THEN b - 55 ELSE b - 87

RECURSIVE PercentDecode(_)
PercentDecode(s) ==
    IF s = <<>> THEN <<>>
    ELSE IF Head(s) = PERCENT /\ Len(s) >= 3 /\ IsHex(s[2]) /\ IsHex(s[3])
         THEN <<16 * HexValue(s[2]) + HexValue(s[3])>>
                  \o PercentDecode(SubSeq(s, 4, Len(s)))
         ELSE <<Head(s)>> \o PercentDecode(Tail(s))

\* the longest prefix of s without a byte of stops
RECURSIVE UpTo(_, _)
UpTo(s, stops) ==
    IF s = <<>> \/ Head(s) \in stops THEN <<>>
    ELSE <<Head(s)>> \o UpTo(Tail(s), stops)

\* The object a download URL names: the last path segment, decoded
ObjectOfGetUrl(u) == PercentDecode(UpTo(u, {SLASH, QMARK, 35}))

\* The value of the query parameter "name", decoded
ObjectOfPutUrl(u) ==
    LET first == UpTo(u, {AMP, 35})
        pname == UpTo(first, {EQUALS})
    IN  IF pname = <<110, 97, 109, 101>> /\ Len(first) > Len(pname)
        THEN PercentDecode(SubSeq(first, Len(pname) + 2, Len(first)))
        ELSE <<>>

(***************************************************************************)
(* Values.                                                                 *)
(***************************************************************************)
Calls == 1..MaxCalls
ExchIds == 1..MaxExch

\* keys the cache is called with: "k" and "k&k"
CallKeys == {<<107>>, <<107, AMP, 107>>}

\* what CacheWrite::finish produces: well-formed cache entries
Blobs == {"entryA", "entryB"}

\* a response body that is no cache entry
Garbage == "garbage"

\* the objects the calls of the model can name
Objects ==
    {ObjectOfGetUrl(GetUrl(k)) : k \in CallKeys} \cup {ObjectOfPutUrl(PutUrl(k)) : k \in CallKeys}

\* bytes of keys: k / ? space & % 4 1
KeyBytes == {107, SLASH, QMARK, 32, AMP, PERCENT, 52, 49}

\* the keys the URLs are built for
Keys == UNION {[1..n -> KeyBytes] : n \in 1..MaxKeyLen}

\* the credentials file: a service-account key, the key that replaces it, no
\* file, or no JSON key
FileStates == {"key", "key2", "absent", "malformed"}

\* the credentials file when the provider is made
FilesAtStart == {"key", "absent", "malformed"}

\* advances of the clock, in minutes
TickSteps == {29, 30}

NoErr == <<"none", 0>>
NoCred == [token |-> 0, expiration_time |-> 0]

\* res.status().is_success()
IsSuccess(status) == status >= 200 /\ status < 300

\* what the token endpoint can answer
TokenResponses ==
    { [transport |-> FALSE, status |-> 200, body |-> "json"],
      [transport |-> FALSE, status |-> 200, body |-> "garbage"],
      [transport |-> FALSE, status |-> 200, body |-> "broken"],
      [transport |-> FALSE, status |-> 500, body |-> "json"],
      [transport |-> TRUE, status |-> 0, body |-> "broken"] }

NoResponse == [transport |-> FALSE, status |-> 0, body |-> "none"]

(***************************************************************************)
(* State.                                                                  *)
(***************************************************************************)
VARIABLES
    now,        \* chrono::UTC::now(), in minutes
    credFile,   \* the file at credentials_path
    cached,     \* cached_credentials: 0 is None, i > 0 is Some(shared[i])
    shared,     \* the Shared futures created so far, by number
    nexch,      \* how many refreshes were started
    tokenReqs,  \* how many requests were sent to the token endpoint
    calls,      \* the get and put calls of the cache
    store,      \* the bucket: object name -> content
    lastPut,    \* history: key -> content of the last put the bucket stored
    urlKey,     \* URL construction: the key
    urlGet,     \* the download URL built for urlKey
    urlPut,     \* the upload URL built for urlKey
    jwtNow,     \* JWT and expiry: UTC::now() at the refresh, in milliseconds
    jwtClaims,  \* the JwtClaims of the refresh
    jwtCred     \* the GCSCredential the exchange gave

vars == <<now, credFile, cached, shared, nexch, tokenReqs, calls, store, lastPut,
          urlKey, urlGet, urlPut, jwtNow, jwtClaims, jwtCred>>

credVars == <<cached, shared, nexch, tokenReqs>>
urlVars == <<urlKey, urlGet, urlPut>>
jwtVars == <<jwtNow, jwtClaims, jwtCred>>

\* a Shared future that was not created yet
Unused ==
    [stage |-> "unused", expiration_time |-> 0, token |-> 0, err |-> NoErr,
     resp |-> NoResponse, file |-> "none"]

IdleCall ==
    [pc |-> "idle", kind |-> "none", key |-> <<>>, data |-> "none", f |-> 0,
     seen |-> "none", refreshed |-> FALSE, stale |-> FALSE,
     creds |-> NoCred, credErr |-> NoErr, sent |-> 0, bearer |-> 0,
     answers |-> 0, finish |-> "none",
     resp |-> NoResponse, served |-> "none", before |-> "none", expect |-> "none",
     bucket |-> [tag |-> "none", data |-> "none", err |-> NoErr],
     result |-> [tag |-> "none", data |-> "none", err |-> NoErr]]

(***************************************************************************)
(* GCSCredentialProvider                                                   *)
(***************************************************************************)
\* auth_request_jwt: the file is read when the refresh starts
AuthRequestJwt(file) ==
    IF file = "absent" THEN <<"Couldn't stat GCS credentials file", 0>>
    ELSE IF file = "malformed" THEN <<"serde_json", 0>>
    ELSE NoErr

\* a refresh that keeps the key the first refresh read
NewExchangeCachedKey(file, expires_at) ==
    LET kept == IF nexch = 0 THEN file ELSE shared[1].file
    IN  [stage |-> IF AuthRequestJwt(kept) = NoErr THEN "jwtOk" ELSE "jwtErr",
         expiration_time |-> expires_at, token |-> 0, err |-> AuthRequestJwt(kept),
         resp |-> NoResponse, file |-> kept]

\* The future built by credentials() when a refresh is needed
NewExchange(file, expires_at) ==
    [stage |-> IF AuthRequestJwt(file) = NoErr THEN "jwtOk" ELSE "jwtErr",
     expiration_time |-> expires_at, token |-> 0, err |-> AuthRequestJwt(file),
     resp |-> NoResponse, file |-> file]

\* The stages after the response arrived: status check, body, TokenMsg
ExchangeResult(s, id) ==
    IF s.resp.transport
    THEN [s EXCEPT !.stage = "err", !.err = <<"hyper", 0>>]
    ELSE IF ~IsSuccess(s.resp.status)
    THEN [s EXCEPT !.stage = "err", !.err = <<"BadHTTPStatus", s.resp.status>>]
    ELSE IF s.resp.body = "broken"
    THEN [s EXCEPT !.stage = "err", !.err = <<"failed to read HTTP body", 0>>]
    ELSE IF s.resp.body # "json"
    THEN [s EXCEPT !.stage = "err", !.err = <<"serde_json", 0>>]
    ELSE [s EXCEPT !.stage = "ok", !.token = id]

\* Shared::poll: drives the exchange as far as it can go
PollShared(s, id) ==
    CASE s.stage = "jwtErr" -> [s EXCEPT !.stage = "err"]
      [] s.stage = "jwtOk" -> [s EXCEPT !.stage = "sent"]
      [] s.stage = "resp" -> ExchangeResult(s, id)
      [] OTHER -> s

\* an exchange that is given up when one of its clones is dropped
AfterDropCancels(s) ==
    IF s.stage \in {"jwtErr", "jwtOk", "sent", "resp"}
    THEN [s EXCEPT !.stage = "cancelled"]
    ELSE s

\* The Shared future once one of its clones was dropped: the slot holds
\* another clone, the future stays as it is
AfterDrop(s) == s

\* the poll sends the request to the token endpoint
SendsTokenRequest(s) == s.stage = "jwtOk"

\* chrono::Duration::minutes(n), in milliseconds
Minutes(n) == n * 60 * MillisPerSecond

\* DateTime::timestamp(): the whole seconds of the instant t
Timestamp(t) == t \div MillisPerSecond

\* the instant at which a timestamp of s seconds begins
InstantOf(s) == s * MillisPerSecond

\* expires_at = chrono::UTC::now() + chrono::Duration::minutes(59)
ExpiresAt(t) == t + Minutes(TokenLifetime)

\* the expiration and issued_at of the JwtClaims of auth_request_jwt
NoClaims == [expiration |-> -1, issued_at |-> -1]
JwtClaimsOf(expire_at, t) ==
    [expiration |-> Timestamp(expire_at), issued_at |-> Timestamp(t)]

\* expires_in of the TokenMsg, in seconds
ExpiresInValues == {0, 1800, 3600}

\* the GCSCredential made from the TokenMsg of the token endpoint
CredentialFrom(msg, expires_at) ==
    [token |-> msg.access_token, expiration_time |-> expires_at]

\* the credential is kept by the next credentials() call made at t
KeptAt(cred, t) == ~(cred.expiration_time < t)

\* needs_refresh that takes a pending future for a reason to refresh
NeedsRefreshNoJoin(slot, polled, t) ==
    IF slot = 0 THEN TRUE
    ELSE IF polled.stage = "ok" THEN polled.expiration_time < t
    ELSE polled.stage # "err"

\* needs_refresh that is always true
NeedsRefreshAlways(slot, polled, t) == TRUE

\* needs_refresh that never keeps a credential
NeedsRefreshNoCache(slot, polled, t) ==
    IF slot = 0 THEN TRUE ELSE polled.stage = "ok"

\* needs_refresh, from what the poll of the cached future returned
NeedsRefresh(slot, polled, t) ==
    IF slot = 0 THEN TRUE
    ELSE IF polled.stage = "ok" THEN polled.expiration_time < t
    ELSE FALSE

\* What the poll of the cached future showed
Seen(slot, polled) ==
    IF slot = 0 THEN "none"
    ELSE IF polled.stage = "ok" THEN "ready"
    ELSE IF polled.stage = "err" THEN "err"
    ELSE "pending"

\* credentials(): the poll of the slot, the refresh if one is needed, and the
\* clone of the future in the slot.  c is the call it is made for and rec
\* what the call is.
Credentials(c, rec) ==
    LET polled == IF cached = 0 THEN Unused ELSE PollShared(shared[cached], cached)
        sends == cached # 0 /\ SendsTokenRequest(shared[cached])
        shared1 == IF cached = 0 THEN shared ELSE [shared EXCEPT ![cached] = polled]
        refresh == NeedsRefresh(cached, polled, now)
        id == nexch + 1
    IN  /\ refresh => id <= MaxExch
        /\ tokenReqs' = IF sends THEN tokenReqs + 1 ELSE tokenReqs
        /\ IF refresh
           THEN /\ shared' = [shared1 EXCEPT ![id] = NewExchange(credFile, now + TokenLifetime)]
                /\ cached' = id
                /\ nexch' = id
           ELSE /\ shared' = shared1
                /\ cached' = cached
                /\ nexch' = nexch
        /\ calls' = [calls EXCEPT ![c] =
                        [rec EXCEPT !.pc = "cred",
                                    !.f = cached',
                                    !.seen = Seen(cached, polled),
                                    !.refreshed = refresh,
                                    !.stale = (Seen(cached, polled) = "ready"
                                               /\ polled.expiration_time <= now)]]

(***************************************************************************)
(* Bucket and Storage                                                      *)
(***************************************************************************)
Ok(data) == [tag |-> "Ok", data |-> data, err |-> NoErr]
Err(e) == [tag |-> "Err", data |-> "none", err |-> e]
Hit(data) == [tag |-> "Hit", data |-> data, err |-> NoErr]
Miss == [tag |-> "Miss", data |-> "none", err |-> NoErr]

\* Bucket::get without the check of the status
BucketGetResultAnyStatus(resp) ==
    IF resp.transport THEN Err(<<"failed GET", 0>>)
    ELSE IF resp.body = "broken" THEN Err(<<"failed to read HTTP body", 0>>)
    ELSE Ok(resp.body)

\* Bucket::get, once the request was answered
BucketGetResult(resp) ==
    IF resp.transport THEN Err(<<"failed GET", 0>>)
    ELSE IF ~IsSuccess(resp.status) THEN Err(<<"BadHTTPStatus", resp.status>>)
    ELSE IF resp.body = "broken" THEN Err(<<"failed to read HTTP body", 0>>)
    ELSE Ok(resp.body)

\* Bucket::put without the check of the status
BucketPutResultAnyStatus(resp) ==
    IF resp.transport THEN Err(<<"hyper", 0>>) ELSE Ok("unit")

\* Bucket::put, once the request was answered
BucketPutResult(resp) ==
    IF resp.transport THEN Err(<<"hyper", 0>>)
    ELSE IF IsSuccess(resp.status) THEN Ok("unit")
    ELSE Err(<<"BadHTTPStatus", resp.status>>)

\* CacheRead::from(io::Cursor::new(data)): the data has to be a cache entry
CacheReadFrom(data) ==
    IF data \in Blobs THEN Ok(data) ELSE Err(<<"CacheRead::from", 0>>)

\* Storage::get that hands the error of Bucket::get to its caller
StorageGetPropagates(b) ==
    IF b.tag = "Ok"
    THEN IF CacheReadFrom(b.data).tag = "Ok" THEN Hit(b.data) ELSE CacheReadFrom(b.data)
    ELSE Err(b.err)

\* <GCSCache as Storage>::get, from the result of Bucket::get
StorageGet(b) ==
    IF b.tag = "Ok"
    THEN IF CacheReadFrom(b.data).tag = "Ok" THEN Hit(b.data) ELSE CacheReadFrom(b.data)
    ELSE Miss

\* <GCSCache as Storage>::put, from the result of Bucket::put; chain_err
\* adds its text to the error and keeps the cause
StoragePut(b) ==
    IF b.tag = "Ok" THEN Ok("elapsed") ELSE Err(b.err)

StorageResult(kind, b) == IF kind = "get" THEN StorageGet(b) ELSE StoragePut(b)

\* a bearer token read from the slot when the request is built
BearerFromSlot(creds) == IF cached = 0 THEN 0 ELSE shared[cached].token

\* Authorization(Bearer { token: creds.token })
Bearer(creds) == creds.token

\* a call that sends its object request again when it failed
AfterResponseRetry(b) == IF b.tag = "Err" THEN "req" ELSE "done"

\* Where a call is once its object request was answered with result b: the
\* future resolves, nothing is sent again
AfterResponse(b) == "done"

\* a slot that is emptied when the bucket refuses the token
SlotAfterResponseInvalidates(slot, resp) ==
    IF ~resp.transport /\ resp.status \in {401, 403} THEN 0 ELSE slot

\* cached_credentials once an object request was answered: the handling of
\* the response does not touch it
SlotAfterResponse(slot, resp) == slot

\* object requests that are answered in the order they were made
CanAnswerInOrder(c) ==
    /\ calls[c].pc = "req"
    /\ \A d \in Calls : d < c => calls[d].pc # "req"

\* The object request of call c can be answered: it was sent with
\* client.request on the call's own future and waits for nothing else
CanAnswer(c) == calls[c].pc = "req"

\* calls are numbered in the order they are made
CanStart(c) ==
    /\ calls[c].pc = "idle"
    /\ \A d \in Calls : d < c => calls[d].pc # "idle"

(***************************************************************************)
(* Actions                                                                 *)
(***************************************************************************)
\* Storage::get(key): Bucket::get builds the URL and calls credentials()
StartGet(c, key) ==
    /\ CanStart(c)
    /\ Credentials(c, [IdleCall EXCEPT !.kind = "get", !.key = key,
                                       !.before = lastPut[key]])
    /\ UNCHANGED <<now, credFile, store, lastPut, urlVars, jwtVars>>

\* Storage::put(key, entry): entry.finish() gave data, Bucket::put builds
\* the URL and calls credentials()
StartPut(c, key, data) ==
    /\ CanStart(c)
    /\ Credentials(c, [IdleCall EXCEPT !.kind = "put", !.key = key, !.data = data,
                                       !.finish = "ok"])
    /\ UNCHANGED <<now, credFile, store, lastPut, urlVars, jwtVars>>

\* Storage::put(key, entry) that goes on to Bucket::put when entry.finish()
\* fails
StartPutFinishIgnored(c, key) ==
    /\ CanStart(c)
    /\ Credentials(c, [IdleCall EXCEPT !.kind = "put", !.key = key,
                                       !.finish = "failed"])
    /\ UNCHANGED <<now, credFile, store, lastPut, urlVars, jwtVars>>

\* Storage::put(key, entry) when entry.finish() fails: the error is returned
\* at once
StartPutFinishFails(c, key) ==
    /\ CanStart(c)
    /\ calls' = [calls EXCEPT ![c] =
                    [IdleCall EXCEPT !.pc = "done", !.kind = "put", !.key = key,
                                     !.finish = "failed",
                                     !.result = Err(<<"CacheWrite::finish", 0>>)]]
    /\ UNCHANGED <<now, credFile, credVars, store, lastPut, urlVars, jwtVars>>

\* The executor polls the future of a call that waits for its credential:
\* the clone of the Shared future is polled; with the credential the object
\* request is sent, with an error the call ends.
PollCall(c) ==
    LET f == calls[c].f
        polled == PollShared(shared[f], f)
    IN  /\ calls[c].pc = "cred"
        /\ shared' = [shared EXCEPT ![f] = polled]
        /\ tokenReqs' = IF SendsTokenRequest(shared[f]) THEN tokenReqs + 1 ELSE tokenReqs
        /\ calls' =
             IF polled.stage = "ok"
             THEN [calls EXCEPT ![c].pc = "req",
                                ![c].creds = [token |-> polled.token,
                                              expiration_time |-> polled.expiration_time],
                                ![c].sent = calls[c].sent + 1,
                                ![c].bearer = Bearer([token |-> polled.token,
                                                      expiration_time |-> polled.expiration_time])]
             ELSE IF polled.stage = "err"
             THEN [calls EXCEPT ![c].pc = "done",
                                ![c].credErr = polled.err,
                                ![c].bucket = Err(polled.err),
                                ![c].result = StorageResult(calls[c].kind, Err(polled.err))]
             ELSE calls
        /\ UNCHANGED <<now, credFile, cached, nexch, store, lastPut, urlVars, jwtVars>>

\* The caller of call c drops the future credentials() returned before it
\* resolved
Abandon(c) ==
    /\ calls[c].pc = "cred"
    /\ calls' = [calls EXCEPT ![c].pc = "dropped"]
    /\ shared' = [shared EXCEPT ![calls[c].f] = AfterDrop(shared[calls[c].f])]
    /\ UNCHANGED <<now, credFile, cached, nexch, tokenReqs, store, lastPut, urlVars, jwtVars>>

\* The token endpoint (or the transport) answers the request of exchange id
TokenRespond(id, r) ==
    /\ shared[id].stage = "sent"
    /\ shared' = [shared EXCEPT ![id].stage = "resp", ![id].resp = r]
    /\ UNCHANGED <<now, credFile, cached, nexch, tokenReqs, calls, store, lastPut, urlVars, jwtVars>>

\* what the bucket answers to a download when it works
StoreGetResponse(key) ==
    LET obj == ObjectOfGetUrl(GetUrl(key))
    IN  IF store[obj] = "none"
        THEN [transport |-> FALSE, status |-> 404, body |-> "none"]
        ELSE [transport |-> FALSE, status |-> 200, body |-> store[obj]]

\* what a download can get when the bucket or the network does not work
GetFaults ==
    { [transport |-> TRUE, status |-> 0, body |-> "broken"],
      [transport |-> FALSE, status |-> 403, body |-> "none"],
      [transport |-> FALSE, status |-> 500, body |-> "none"],
      [transport |-> FALSE, status |-> 200, body |-> "broken"],
      [transport |-> FALSE, status |-> 200, body |-> Garbage] }

\* what an upload can get when the bucket or the network does not work
PutFaults ==
    { [transport |-> TRUE, status |-> 0, body |-> "broken"],
      [transport |-> FALSE, status |-> 401, body |-> "none"],
      [transport |-> FALSE, status |-> 500, body |-> "none"] }

\* the end of a call whose object request was answered with resp
Finish(c, resp, how, expect) ==
    LET b == IF calls[c].kind = "get" THEN BucketGetResult(resp) ELSE BucketPutResult(resp)
    IN  /\ cached' = SlotAfterResponse(cached, resp)
        /\ calls' = [calls EXCEPT ![c].pc = AfterResponse(b),
                                  ![c].answers = calls[c].answers + 1,
                                  ![c].resp = resp,
                                  ![c].served = how,
                                  ![c].expect = expect,
                                  ![c].bucket = b,
                                  ![c].result = StorageResult(calls[c].kind, b)]

\* The bucket answers a download from what it holds
ServeGet(c) ==
    /\ CanAnswer(c) /\ calls[c].kind = "get"
    /\ Finish(c, StoreGetResponse(calls[c].key), "store", lastPut[calls[c].key])
    /\ UNCHANGED <<now, credFile, shared, nexch, tokenReqs, store, lastPut, urlVars, jwtVars>>

\* A download fails
FailGet(c, r) ==
    /\ CanAnswer(c) /\ calls[c].kind = "get"
    /\ Finish(c, r, "fault", "none")
    /\ UNCHANGED <<now, credFile, shared, nexch, tokenReqs, store, lastPut, urlVars, jwtVars>>

\* The bucket stores an upload under the name the URL gives and answers 200
ServePut(c) ==
    /\ CanAnswer(c) /\ calls[c].kind = "put"
    /\ store' = [store EXCEPT ![ObjectOfPutUrl(PutUrl(calls[c].key))] = calls[c].data]
    /\ lastPut' = [lastPut EXCEPT ![calls[c].key] = calls[c].data]
    /\ Finish(c, [transport |-> FALSE, status |-> 200, body |-> "none"], "store", "none")
    /\ UNCHANGED <<now, credFile, shared, nexch, tokenReqs, urlVars, jwtVars>>

\* An upload fails
FailPut(c, r) ==
    /\ CanAnswer(c) /\ calls[c].kind = "put"
    /\ Finish(c, r, "fault", "none")
    /\ UNCHANGED <<now, credFile, shared, nexch, tokenReqs, store, lastPut, urlVars, jwtVars>>

\* Time passes
Tick(d) ==
    /\ now + d <= MaxTime
    /\ now' = now + d
    /\ UNCHANGED <<credFile, credVars, calls, store, lastPut, urlVars, jwtVars>>

\* The credentials file is replaced, removed or created
SetCredFile(v) ==
    /\ v # credFile
    /\ credFile' = v
    /\ UNCHANGED <<now, credVars, calls, store, lastPut, urlVars, jwtVars>>

\* credentials() finds that a refresh is needed at jwtNow and
\* auth_request_jwt makes the claims of the JWT
JwtRefresh ==
    /\ jwtClaims = NoClaims
    /\ jwtClaims' = JwtClaimsOf(ExpiresAt(jwtNow), jwtNow)
    /\ UNCHANGED <<now, credFile, credVars, calls, store, lastPut, urlVars, jwtNow, jwtCred>>

\* The token endpoint answers the exchange with a TokenMsg
JwtAnswer(expires_in) ==
    /\ jwtClaims # NoClaims /\ jwtCred = NoCred
    /\ jwtCred' = CredentialFrom([access_token |-> 1, token_type |-> "Bearer",
                                  expires_in |-> expires_in], ExpiresAt(jwtNow))
    /\ UNCHANGED <<now, credFile, credVars, calls, store, lastPut, urlVars, jwtNow, jwtClaims>>

\* Bucket::get builds the download URL of urlKey
BuildGetUrl ==
    /\ urlGet = <<>>
    /\ urlGet' = GetUrl(urlKey)
    /\ UNCHANGED <<now, credFile, credVars, calls, store, lastPut, urlKey, urlPut, jwtVars>>

\* Bucket::put builds the upload URL of urlKey
BuildPutUrl ==
    /\ urlPut = <<>>
    /\ urlPut' = PutUrl(urlKey)
    /\ UNCHANGED <<now, credFile, credVars, calls, store, lastPut, urlKey, urlGet, jwtVars>>

Init ==
    /\ now = 0
    /\ credFile \in FilesAtStart
    /\ cached = 0
    /\ shared = [i \in ExchIds |-> Unused]
    /\ nexch = 0
    /\ tokenReqs = 0
    /\ calls = [c \in Calls |-> IdleCall]
    /\ store = [o \in Objects |-> "none"]
    /\ lastPut = [k \in CallKeys |-> "none"]
    /\ urlKey = <<>>
    /\ urlGet = <<>>
    /\ urlPut = <<>>
    /\ jwtNow = 0
    /\ jwtClaims = NoClaims
    /\ jwtCred = NoCred

\* the steps of the program and of its environment, for calls with keys of K
\* and entries of B
Step(K, B) ==
    \/ \E c \in Calls, k \in K : StartGet(c, k)
    \/ \E c \in Calls, k \in K, d \in B : StartPut(c, k, d)
    \/ \E c \in Calls, k \in K : StartPutFinishFails(c, k)
    \/ \E c \in Calls : PollCall(c)
    \/ \E id \in ExchIds, r \in TokenResponses : TokenRespond(id, r)
    \/ \E c \in Calls : ServeGet(c)
    \/ \E c \in Calls, r \in GetFaults : FailGet(c, r)
    \/ \E c \in Calls : ServePut(c)
    \/ \E c \in Calls, r \in PutFaults : FailPut(c, r)
    \/ \E d \in TickSteps : Tick(d)

\* every key and entry of the model, and a credentials file that changes
Next ==
    \/ Step(CallKeys, Blobs)
    \/ \E v \in FileStates : SetCredFile(v)

\* the same program called with one key and one entry, the credentials file
\* being what it was at the start
NextOneKey == Step({<<107>>}, {"entryA"})

\* downloads of one key, and a credentials file that changes
NextFile ==
    \/ \E c \in Calls : StartGet(c, <<107>>)
    \/ \E c \in Calls : PollCall(c)
    \/ \E id \in ExchIds, r \in TokenResponses : TokenRespond(id, r)
    \/ \E c \in Calls : ServeGet(c)
    \/ \E c \in Calls, r \in GetFaults : FailGet(c, r)
    \/ \E d \in TickSteps : Tick(d)
    \/ \E v \in FileStates : SetCredFile(v)

\* downloads of one key by callers that may drop their future
NextAbandon ==
    \/ \E c \in Calls : StartGet(c, <<107>>)
    \/ \E c \in Calls : PollCall(c)
    \/ \E c \in Calls : Abandon(c)
    \/ \E id \in ExchIds, r \in TokenResponses : TokenRespond(id, r)
    \/ \E c \in Calls : ServeGet(c)
    \/ \E c \in Calls, r \in GetFaults : FailGet(c, r)
    \/ \E d \in TickSteps : Tick(d)

\* calls of one key made and answered while the clock stands still
NextRequests ==
    \/ \E c \in Calls : StartGet(c, <<107>>)
    \/ \E c \in Calls : StartPut(c, <<107>>, "entryA")
    \/ \E c \in Calls : PollCall(c)
    \/ \E id \in ExchIds, r \in TokenResponses : TokenRespond(id, r)
    \/ \E c \in Calls : ServeGet(c)
    \/ \E c \in Calls, r \in GetFaults : FailGet(c, r)
    \/ \E c \in Calls : ServePut(c)
    \/ \E c \in Calls, r \in PutFaults : FailPut(c, r)

Spec == Init /\ [][Next]_vars

SpecRequests == Init /\ [][NextRequests]_vars

\* The executor polls the future of every call that was not dropped (the
\* Shared future notifies the tasks of all its waiters), and the token
\* endpoint answers every request it was sent
SpecAbandon ==
    /\ Init
    /\ [][NextAbandon]_vars
    /\ \A c \in Calls : WF_vars(PollCall(c))
    /\ \A id \in ExchIds : WF_vars(\E r \in TokenResponses : TokenRespond(id, r))

SpecFile == Init /\ [][NextFile]_vars

SpecOneKey == Init /\ [][NextOneKey]_vars

\* URL construction alone: any key of Keys, both URLs built from it
InitUrl ==
    /\ now = 0
    /\ credFile = "key"
    /\ cached = 0
    /\ shared = [i \in ExchIds |-> Unused]
    /\ nexch = 0
    /\ tokenReqs = 0
    /\ calls = [c \in Calls |-> IdleCall]
    /\ store = [o \in Objects |-> "none"]
    /\ lastPut = [k \in CallKeys |-> "none"]
    /\ urlKey \in Keys
    /\ urlGet = <<>>
    /\ urlPut = <<>>
    /\ jwtNow = 0
    /\ jwtClaims = NoClaims
    /\ jwtCred = NoCred

NextUrl == BuildGetUrl \/ BuildPutUrl

\* One refresh alone: the instant it starts at, the claims of its JWT and
\* the credential it gives
InitJwt ==
    /\ now = 0
    /\ credFile = "key"
    /\ cached = 0
    /\ shared = [i \in ExchIds |-> Unused]
    /\ nexch = 0
    /\ tokenReqs = 0
    /\ calls = [c \in Calls |-> IdleCall]
    /\ store = [o \in Objects |-> "none"]
    /\ lastPut = [k \in CallKeys |-> "none"]
    /\ urlKey = <<>>
    /\ urlGet = <<>>
    /\ urlPut = <<>>
    /\ jwtNow \in 0..MaxStartMillis
    /\ jwtClaims = NoClaims
    /\ jwtCred = NoCred

NextJwt == JwtRefresh \/ \E e \in ExpiresInValues : JwtAnswer(e)

SpecUrl == InitUrl /\ [][NextUrl]_vars

SpecJwt == InitJwt /\ [][NextJwt]_vars

(***************************************************************************)
(* Properties                                                              *)
(***************************************************************************)
\* call c calls credentials() in this step
Issued(c) == calls[c].pc = "idle" /\ calls'[c].pc = "cred"

\* the credential step of call c is over
Resolved(c) == calls[c].f # 0 /\ calls[c].pc \in {"req", "done"}

\* exchange i was started and has no result yet
Unresolved(i) == shared[i].stage \in {"jwtErr", "jwtOk", "sent", "resp"}

\* the credential exchange i produced
CredentialOf(i) ==
    [token |-> shared[i].token, expiration_time |-> shared[i].expiration_time]

\* C1: the credentials() calls made while the cache is empty or the first
\* exchange has no result start one exchange between them, that exchange
\* sends at most one request to the token endpoint, and all of them end
\* their credential step with the same credential or the same error.
C1_SingleFlightFromEmpty ==
    /\ [](\A c, d \in Calls :
            (Resolved(c) /\ Resolved(d) /\ calls[c].f = 1 /\ calls[d].f = 1)
                => /\ calls[c].creds = calls[d].creds
                   /\ calls[c].credErr = calls[d].credErr)
    /\ []((nexch >= 1 /\ Unresolved(1)) => (nexch = 1 /\ cached = 1 /\ tokenReqs <= 1))
    /\ [][\A c \in Calls :
            (Issued(c) /\ (nexch = 0 \/ shared'[1].stage \notin {"ok", "err"}))
                => (nexch' = 1 /\ cached' = 1 /\ calls'[c].f = 1)]_vars

\* C1 witness: two callers of the first exchange, the second having joined
\* it in flight, both hold its credential
C1_Witness ==
    \E c, d \in Calls :
        /\ c # d /\ Resolved(c) /\ Resolved(d)
        /\ calls[c].seen = "none" /\ calls[d].seen = "pending"
        /\ calls[c].creds.token = 1 /\ calls[d].creds.token = 1
        /\ nexch = 1 /\ tokenReqs = 1

\* C2 (as claimed): a credentials() call that finds a failed exchange in the
\* cache starts a new exchange.
C2_FailureNotKept == \A c \in Calls : calls[c].seen = "err" => calls[c].refreshed

\* C3 (as claimed): a credentials() call that finds in the cache a credential
\* with expiration_time <= now starts a new exchange.
C3_ExpiredNeverReturned == \A c \in Calls : calls[c].stale => calls[c].refreshed

\* C4 (as claimed): every finished get resolved to Hit or Miss.
C4_GetNeverErrs ==
    \A c \in Calls :
        (calls[c].kind = "get" /\ calls[c].pc = "done")
            => calls[c].result.tag \in {"Hit", "Miss"}

\* C5: a finished put resolved to success exactly when its credential step
\* succeeded and its upload request was answered with a 2xx status; in every
\* other case it resolved to an error.
C5_PutOutcome ==
    \A c \in Calls :
        (calls[c].kind = "put" /\ calls[c].pc = "done")
            => /\ calls[c].result.tag \in {"Ok", "Err"}
               /\ calls[c].result.tag = "Ok"
                    <=> /\ calls[c].credErr = NoErr
                        /\ calls[c].sent = 1
                        /\ ~calls[c].resp.transport
                        /\ calls[c].resp.status \in 200..299

\* C5 witness: a put whose upload was answered 500 ended with an error
C5_Witness ==
    \E c \in Calls :
        /\ calls[c].kind = "put" /\ calls[c].pc = "done"
        /\ calls[c].sent = 1 /\ calls[c].resp.status = 500
        /\ calls[c].result.tag = "Err"

\* C6: at most one exchange is without a result at any time, and a
\* credentials() call made while the exchange in the cache has no result
\* joins it and starts none.
C6_OneInFlight ==
    /\ [](Cardinality({i \in ExchIds : Unresolved(i)}) <= 1)
    /\ [][\A c \in Calls :
            (Issued(c) /\ cached # 0 /\ shared'[cached].stage \notin {"ok", "err"})
                => (nexch' = nexch /\ cached' = cached /\ calls'[c].f = cached)]_vars

\* C6 witness: a call joined an exchange whose request is with the token
\* endpoint
C6_Witness ==
    \E c \in Calls :
        /\ calls[c].pc = "cred" /\ calls[c].seen = "pending" /\ ~calls[c].refreshed
        /\ shared[calls[c].f].stage = "sent"

\* C7: a credentials() call made while the cache holds a credential with
\* expiration_time > now starts no exchange and sends nothing to the token
\* endpoint, and the call gets that credential.
C7_ValidReused ==
    /\ [][\A c \in Calls :
            (/\ Issued(c) /\ cached # 0
             /\ shared'[cached].stage = "ok"
             /\ shared'[cached].expiration_time > now)
                => /\ nexch' = nexch /\ tokenReqs' = tokenReqs /\ cached' = cached
                   /\ calls'[c].f = cached]_vars
    /\ [](\A c \in Calls :
            (Resolved(c) /\ calls[c].seen = "ready" /\ ~calls[c].refreshed)
                => calls[c].creds = CredentialOf(calls[c].f))

\* C7 witness: a later call, made after time passed, sent its request with
\* the credential of the one exchange
C7_Witness ==
    \E c \in Calls :
        /\ calls[c].seen = "ready" /\ ~calls[c].refreshed /\ calls[c].pc = "req"
        /\ calls[c].creds.token = 1 /\ calls[c].bearer = 1
        /\ nexch = 1 /\ now > 0

\* C8 (as claimed): a get made after a put of the same key ended in success
\* with the bucket storing it, and answered by the bucket with no other put
\* of that key stored in between, is a Hit with the content of that put.
C8_RoundTrip ==
    \A c \in Calls :
        (/\ calls[c].kind = "get" /\ calls[c].pc = "done"
         /\ calls[c].served = "store"
         /\ calls[c].before # "none" /\ calls[c].expect = calls[c].before)
            => calls[c].result = Hit(calls[c].before)

\* C9 (as claimed): the download URL and the upload URL of a key name the
\* same object.
C9_SameObject ==
    (urlGet # <<>> /\ urlPut # <<>>) => ObjectOfGetUrl(urlGet) = ObjectOfPutUrl(urlPut)

\* C10: a call whose credential step failed sent no object request and ended
\* with Miss if it is a get and with that error if it is a put; and a call
\* made while another call waits for a credential step that has not
\* succeeded joins that same step.
C10_FailedCredentialStep ==
    /\ [](\A c \in Calls :
            (calls[c].pc = "done" /\ calls[c].credErr # NoErr)
                => /\ calls[c].credErr = shared[calls[c].f].err
                   /\ calls[c].sent = 0
                   /\ calls[c].kind = "get" => calls[c].result = Miss
                   /\ calls[c].kind = "put" => calls[c].result = Err(calls[c].credErr))
    /\ [][\A p, g \in Calls :
            (Issued(p) /\ calls[g].pc = "cred" /\ shared'[calls[g].f].stage # "ok")
                => (calls'[p].f = calls[g].f /\ nexch' = nexch)]_vars

\* C10 witness: the token endpoint answered 500 once; a get ended with Miss
\* and a put that joined the same exchange ended with the error
C10_Witness ==
    \E g, p \in Calls :
        /\ calls[g].kind = "get" /\ calls[g].pc = "done" /\ calls[g].result = Miss
        /\ calls[p].kind = "put" /\ calls[p].pc = "done" /\ calls[p].result.tag = "Err"
        /\ calls[g].f = calls[p].f
        /\ calls[g].credErr = <<"BadHTTPStatus", 500>>
        /\ calls[p].credErr = <<"BadHTTPStatus", 500>>
        /\ nexch = 1 /\ tokenReqs = 1

\* C13: a call sends at most one object request and gets at most one answer
\* to it, and it is over once that answer is there, whatever the answer is;
\* every exchange was started by a call of its own and sends at most one
\* request to the token endpoint.
C13_NoRetry ==
    /\ \A c \in Calls :
          /\ calls[c].sent <= 1
          /\ calls[c].answers <= calls[c].sent
          /\ calls[c].answers = 1 => calls[c].pc = "done"
          /\ calls[c].credErr # NoErr => calls[c].pc = "done"
    /\ tokenReqs <= nexch
    /\ nexch = Cardinality({c \in Calls : calls[c].refreshed})

\* C13 witness: an object request was answered 500 and a token exchange
\* failed; one object request and two token requests were sent in all
C13_Witness ==
    \E c, d \in Calls :
        /\ calls[c].pc = "done" /\ calls[c].sent = 1 /\ calls[c].answers = 1
        /\ ~calls[c].resp.transport /\ calls[c].resp.status = 500
        /\ calls[d].pc = "done" /\ calls[d].credErr # NoErr /\ calls[d].refreshed
        /\ nexch = 2 /\ tokenReqs = 2

\* C14: a get that ended with Hit had its download answered with a 2xx
\* status and a body that was read to its end; a download answered with
\* another status gives BadHTTPStatus from Bucket::get and Miss from
\* Storage::get.
C14_HitOnlyOn2xx ==
    \A c \in Calls :
        (calls[c].kind = "get" /\ calls[c].pc = "done") =>
            /\ calls[c].result.tag = "Hit" =>
                  /\ calls[c].answers = 1
                  /\ ~calls[c].resp.transport
                  /\ IsSuccess(calls[c].resp.status)
                  /\ calls[c].resp.body # "broken"
                  /\ calls[c].result.data = calls[c].resp.body
            /\ (calls[c].answers = 1 /\ ~calls[c].resp.transport
                    /\ ~IsSuccess(calls[c].resp.status)) =>
                  /\ calls[c].bucket = Err(<<"BadHTTPStatus", calls[c].resp.status>>)
                  /\ calls[c].result = Miss

\* C14 witness: a download of an object the bucket does not hold was
\* answered 404
C14_Witness ==
    \E c \in Calls :
        /\ calls[c].kind = "get" /\ calls[c].pc = "done" /\ calls[c].served = "store"
        /\ calls[c].resp.status = 404
        /\ calls[c].bucket = Err(<<"BadHTTPStatus", 404>>)
        /\ calls[c].result = Miss

\* C15: the step in which an object request is answered leaves the slot, the
\* exchanges and their counts as they are; the slot changes only in a
\* credentials() call that starts a refresh, and an exchange changes only in
\* a credentials() call, a poll of a call that waits for it or the arrival
\* of the token endpoint's answer.
C15_ObjectOutcomeKeepsSlot ==
    /\ [][\A c \in Calls :
            (calls[c].pc = "req" /\ calls'[c] # calls[c]) => credVars' = credVars]_vars
    /\ [][cached' # cached =>
            \E c \in Calls : Issued(c) /\ calls'[c].refreshed /\ cached' = calls'[c].f]_vars
    /\ [][\A i \in ExchIds :
            shared'[i] # shared[i] =>
                \/ \E c \in Calls : Issued(c)
                \/ \E c \in Calls : calls[c].pc = "cred" /\ calls[c].f = i
                \/ shared[i].stage = "sent" /\ shared'[i].stage = "resp"]_vars

\* C15 witness: an upload was answered 401 and the slot still holds the
\* credential the upload was made with
C15_Witness ==
    \E c \in Calls :
        /\ calls[c].kind = "put" /\ calls[c].pc = "done"
        /\ ~calls[c].resp.transport /\ calls[c].resp.status = 401
        /\ cached = calls[c].f /\ shared[cached].stage = "ok"
        /\ calls[c].bearer = shared[cached].token

\* C16: whenever the object request of a call is in flight it can be
\* answered in the next step, whatever the state of the other calls is: of
\* two requests in flight either can be answered first, and one that is
\* never answered does not hold up the other.
C16_Unordered ==
    \A c \in Calls :
        calls[c].pc = "req" =>
            /\ calls[c].kind = "get" => ENABLED ServeGet(c)
            /\ calls[c].kind = "put" => ENABLED ServePut(c)

\* C16 witness: of two calls that got the same credential the later one has
\* its answer while the request of the earlier one is still in flight
C16_Witness ==
    \E c, d \in Calls :
        /\ c < d
        /\ calls[c].pc = "req" /\ calls[c].sent = 1 /\ calls[c].answers = 0
        /\ calls[d].pc = "done" /\ calls[d].sent = 1 /\ calls[d].answers = 1
        /\ calls[c].creds = calls[d].creds /\ calls[c].creds # NoCred

\* C18: a call that sent its object request had its credential step end with
\* a credential, the one of the exchange it waited for, and the request
\* carries the token of that credential; a call whose credential step failed
\* sent no request and is over; a call still in its credential step has sent
\* none.
C18_RequestAfterCredential ==
    \A c \in Calls :
        /\ calls[c].sent > 0 =>
              /\ calls[c].credErr = NoErr
              /\ shared[calls[c].f].stage = "ok"
              /\ calls[c].creds = CredentialOf(calls[c].f)
              /\ calls[c].bearer = calls[c].creds.token
        /\ calls[c].credErr # NoErr =>
              /\ calls[c].sent = 0 /\ calls[c].answers = 0
              /\ calls[c].pc = "done"
        /\ calls[c].pc \in {"idle", "cred"} => (calls[c].sent = 0 /\ calls[c].answers = 0)
        /\ calls[c].pc = "req" => calls[c].sent = 1

\* C18 witness: a request in flight carries the token of the first exchange
\* while the slot holds a second exchange, and the call that started the
\* second exchange saw it fail and sent nothing
C18_Witness ==
    \E c, d \in Calls :
        /\ calls[c].sent = 1 /\ calls[c].f = 1 /\ calls[c].bearer = shared[1].token
        /\ calls[c].bearer # 0
        /\ cached = 2
        /\ calls[d].f = 2 /\ calls[d].pc = "done" /\ calls[d].credErr # NoErr
        /\ calls[d].sent = 0

\* C19: the step in which put finds that entry.finish() failed ends the call
\* with that error, with no credential step and no request, and leaves the
\* slot, the exchanges and their counts as they are.
C19_FinishFailure ==
    /\ [](\A c \in Calls :
            calls[c].finish = "failed" =>
                /\ calls[c].pc = "done"
                /\ calls[c].result = Err(<<"CacheWrite::finish", 0>>)
                /\ calls[c].f = 0 /\ calls[c].seen = "none" /\ ~calls[c].refreshed
                /\ calls[c].sent = 0 /\ calls[c].answers = 0)
    /\ [][\A c \in Calls :
            (calls[c].pc = "idle" /\ calls'[c].finish = "failed")
                => credVars' = credVars]_vars

\* C19 witness: a put whose entry could not be finished ended with the error
\* while the only exchange is waiting for the token endpoint
C19_Witness ==
    \E c \in Calls :
        /\ calls[c].finish = "failed" /\ calls[c].pc = "done"
        /\ calls[c].result.tag = "Err"
        /\ cached = 1 /\ nexch = 1 /\ tokenReqs = 1 /\ shared[1].stage = "sent"

\* C17: the exchange a credentials() call starts is built from what the
\* credentials file holds in the step of that call: its key if it holds one,
\* the error of reading it if it does not; what an earlier refresh read
\* plays no part.
C17_KeyReadAtRefresh ==
    [][\A c \in Calls :
          (Issued(c) /\ calls'[c].refreshed) =>
              /\ shared'[cached'].file = credFile
              /\ shared'[cached'].err = AuthRequestJwt(credFile)
              /\ shared'[cached'].stage =
                     (IF credFile \in {"key", "key2"} THEN "jwtOk" ELSE "jwtErr")]_vars

\* C17 witness: the file was replaced by another key between two refreshes
\* that both gave a credential; the second was made with the new key
C17_Witness ==
    /\ nexch = 2 /\ cached = 2
    /\ shared[1].file = "key" /\ shared[1].stage = "ok"
    /\ shared[2].file = "key2" /\ shared[2].stage = "ok"
    /\ credFile = "key2"

\* C12: the expiration_time of the credential an exchange gave is the
\* instant the exp claim of its JWT names, and the cache keeps the
\* credential at no instant after it.
C12_ExpiryIsJwtExp ==
    jwtCred # NoCred =>
        /\ jwtCred.expiration_time = InstantOf(jwtClaims.expiration)
        /\ \A t \in 0..(ExpiresAt(MaxStartMillis) + MillisPerSecond) :
              KeptAt(jwtCred, t) => t <= InstantOf(jwtClaims.expiration)

\* C11: a call that waits for an exchange of which another waiter dropped
\* its future is dropped too or ends its credential step with the outcome of
\* that exchange; and a credentials() call made when the slot holds such an
\* exchange with its result sees that result.
C11_AbandonedWaiter ==
    /\ \A c, d \in Calls :
          (calls[d].pc = "dropped" /\ calls[c].pc = "cred" /\ calls[c].f = calls[d].f)
              ~> \/ calls[c].pc = "dropped"
                 \/ /\ calls[c].pc \in {"req", "done"}
                    /\ \/ /\ shared[calls[c].f].stage = "ok"
                          /\ calls[c].creds = CredentialOf(calls[c].f)
                       \/ /\ shared[calls[c].f].stage = "err"
                          /\ calls[c].credErr = shared[calls[c].f].err
    /\ [][\A p, d \in Calls :
            (Issued(p) /\ calls[d].pc = "dropped" /\ calls[d].f = cached
                 /\ shared'[cached].stage \in {"ok", "err"})
                => calls'[p].seen = (IF shared'[cached].stage = "ok" THEN "ready" ELSE "err")]_vars

\* C11 witness: the caller that started the exchange dropped its future
\* before the token endpoint answered; a call that joined got the credential
\* of that exchange, which the slot holds
C11_Witness ==
    \E c, d \in Calls :
        /\ calls[d].pc = "dropped" /\ calls[d].refreshed /\ calls[d].f = 1
        /\ calls[c].seen = "pending" /\ calls[c].f = 1
        /\ calls[c].pc \in {"req", "done"}
        /\ calls[c].creds = CredentialOf(1) /\ calls[c].creds.token = 1
        /\ cached = 1 /\ shared[1].stage = "ok"

====
